---- MODULE Spec2Model ----
(***************************************************************************)
(* A model of src/main.py, the dependency confusion checker: main() builds *)
(* the packages to check, looks each one up with `pip index versions`,     *)
(* compares the installed version with the registry's and exits 1 when a   *)
(* locally installed version is newer than the registry's.                 *)
(*                                                                         *)
(* Python strings are sequences of tokens: one token per character, except *)
(* that the literals the program searches for ("Latest version") are one   *)
(* token each.  A dict is the sequence of its items in insertion order.    *)
(***************************************************************************)
EXTENDS Integers, Sequences, FiniteSets, TLC

\* Python's None, kept a sequence so that it compares with every string.
None == <<"<None>">>

\* The largest number of distributions in pkg_resources.working_set.
MaxInstalled == 2

------------------------------------------------------------------------------
(* Strings *)

IsSpace(c) == c = " "

RECURSIVE LStrip(_)
LStrip(s) ==
    IF s # << >> /\ IsSpace(Head(s)) THEN LStrip(Tail(s)) ELSE s

RECURSIVE RStrip(_)
RStrip(s) ==
    IF s # << >> /\ IsSpace(s[Len(s)]) THEN RStrip(SubSeq(s, 1, Len(s) - 1)) ELSE s

\* str.strip()
Strip(s) == RStrip(LStrip(s))

\* `needle in s` for a one-token needle
Contains(s, needle) == \E i \in 1..Len(s) : s[i] = needle

\* str.split(sep): the parts of s between the occurrences of sep, always at
\* least one part.
RECURSIVE SplitFrom(_, _, _, _)
SplitFrom(s, sep, i, cur) ==
    IF i > Len(s) THEN <<cur>>
    ELSE IF s[i] = sep THEN <<cur>> \o SplitFrom(s, sep, i + 1, << >>)
    ELSE SplitFrom(s, sep, i + 1, Append(cur, s[i]))

Split(s, sep) == SplitFrom(s, sep, 1, << >>)

\* Python truthiness of an optional string: None and "" are falsy.
Truthy(s) == s # None /\ s # << >>

------------------------------------------------------------------------------
(* packaging.version: parse and the order of Version objects (PEP 440:     *)
(* release segments and an a/b/rc pre-release; parse raises InvalidVersion *)
(* for anything else).                                                     *)

DigitVal(c) ==
    CASE c = "0" -> 0 [] c = "1" -> 1 [] c = "2" -> 2 [] c = "3" -> 3
      [] c = "4" -> 4 [] c = "5" -> 5 [] c = "6" -> 6 [] c = "7" -> 7
      [] c = "8" -> 8 [] c = "9" -> 9 [] OTHER -> -1

IsDigit(c) == DigitVal(c) >= 0

IsDigitAt(s, i) == i <= Len(s) /\ IsDigit(s[i])

RECURSIVE ReadInt(_, _, _)
ReadInt(s, i, acc) ==
    IF IsDigitAt(s, i) THEN ReadInt(s, i + 1, acc * 10 + DigitVal(s[i]))
    ELSE [val |-> acc, next |-> i]

\* [0-9]+(\.[0-9]+)* from position i, which holds a digit
RECURSIVE ReadRelease(_, _, _)
ReadRelease(s, i, rel) ==
    LET n == ReadInt(s, i, 0) IN
    IF n.next <= Len(s) /\ s[n.next] = "." /\ IsDigitAt(s, n.next + 1)
    THEN ReadRelease(s, n.next + 1, Append(rel, n.val))
    ELSE [release |-> Append(rel, n.val), next |-> n.next]

\* The rank of a pre-release tag in the order of its normalised letters
\* "a" < "b" < "rc"; 0 when position i holds no tag.  "c" is an alias of "rc".
PreTagAt(s, i) ==
    IF i > Len(s) THEN [rank |-> 0, next |-> i]
    ELSE IF s[i] = "a" THEN [rank |-> 1, next |-> i + 1]
    ELSE IF s[i] = "b" THEN [rank |-> 2, next |-> i + 1]
    ELSE IF s[i] = "r" /\ i + 1 <= Len(s) /\ s[i + 1] = "c"
         THEN [rank |-> 3, next |-> i + 2]
    ELSE IF s[i] = "c" THEN [rank |-> 3, next |-> i + 1]
    ELSE [rank |-> 0, next |-> i]

\* A final release sorts after every pre-release of the same release
\* (Version._key puts Infinity in the place of the missing pre-release).
FinalPre == <<4, 0>>

InvalidVersion == [valid |-> FALSE, release |-> << >>, pre |-> <<0, 0>>]

\* The grammar of packaging.version.VERSION_PATTERN, restricted to release
\* segments and pre-releases.
MatchVersion(raw) ==
    LET s == Strip(raw) IN
    IF ~IsDigitAt(s, 1) THEN InvalidVersion
    ELSE
      LET r    == ReadRelease(s, 1, << >>)
          sepd == IF r.next <= Len(s) /\ s[r.next] = "." THEN r.next + 1 ELSE r.next
          tag  == PreTagAt(s, sepd)
      IN  IF r.next > Len(s)
          THEN [valid |-> TRUE, release |-> r.release, pre |-> FinalPre]
          ELSE IF tag.rank = 0 THEN InvalidVersion
          ELSE
            LET numAt == IF tag.next <= Len(s) /\ s[tag.next] = "."
                         THEN tag.next + 1 ELSE tag.next
                n     == ReadInt(s, numAt, 0)
            IN  IF n.next > Len(s) /\ (numAt = tag.next \/ IsDigitAt(s, numAt))
                THEN [valid |-> TRUE, release |-> r.release,
                      pre |-> <<tag.rank, n.val>>]
                ELSE InvalidVersion

\* What packaging before 22.0 did: an invalid string became a LegacyVersion,
\* which sorts before every Version.
LegacyParse(raw) ==
    IF MatchVersion(raw).valid THEN MatchVersion(raw)
    ELSE [valid |-> TRUE, release |-> << >>, pre |-> <<0, 0>>]

\* version.parse(raw): [valid |-> FALSE] stands for raising InvalidVersion.
Parse(raw) == MatchVersion(raw)

\* Version._key drops the trailing zeros of the release.
RECURSIVE StripZeros(_)
StripZeros(rel) ==
    IF rel # << >> /\ rel[Len(rel)] = 0
    THEN StripZeros(SubSeq(rel, 1, Len(rel) - 1)) ELSE rel

\* Python's tuple order on tuples of integers
RECURSIVE TupleLess(_, _)
TupleLess(a, b) ==
    IF b = << >> THEN FALSE
    ELSE IF a = << >> THEN TRUE
    ELSE IF Head(a) # Head(b) THEN Head(a) < Head(b)
    ELSE TupleLess(Tail(a), Tail(b))

CmpKey(v) == <<StripZeros(v.release), v.pre>>

\* a > b on Version objects
VersionGreater(a, b) ==
    LET ka == CmpKey(a)
        kb == CmpKey(b)
    IN  IF ka[1] # kb[1] THEN TupleLess(kb[1], ka[1])
        ELSE TupleLess(kb[2], ka[2])

------------------------------------------------------------------------------
(* The inputs: the command line, the installed distributions and what the  *)
(* pip subprocess does.                                                    *)

\* The literal that check_package_availability looks for in a line.
LatestVersionToken == "Latest version"

\* Package names, each a string of one token.
PackageNames == << <<"foo">>, <<"bar">>, <<"internal-lib">>, <<"baz">> >>

\* Installed versions: "2.0.0", "1.0", "1.0.0rc1" and "1.x".
LocalVersions ==
    { <<"2", ".", "0", ".", "0">>,
      <<"1", ".", "0">>,
      <<"1", ".", "0", ".", "0", "r", "c", "1">>,
      <<"1", ".", "x">> }

\* The standard output of the command, as str.splitlines() returns it.
Stdouts ==
    { << >>,
      << <<"f", "o", "o">>,
         <<"Available versions", ":", " ", "1", ".", "5", ".", "0">> >>,
      << <<LatestVersionToken, ":", " ", "1", ".", "5", ".", "0">> >>,
      << <<LatestVersionToken, ":", " ", "1", ".", "0", ".", "0", " ">> >>,
      << <<LatestVersionToken, ":", "1", ".", "0", ".", "0", "r", "c", "1",
           ":", "9">> >>,
      << <<LatestVersionToken, ":">> >>,
      << <<LatestVersionToken, ":", " ", "x">> >>,
      << <<LatestVersionToken>>,
         <<"f", "o", "o", ":", " ", LatestVersionToken, " ", "2", ".", "0">> >>,
      << <<LatestVersionToken, " ", "1", ".", "0">>,
         <<LatestVersionToken, ":", " ", "2", ".", "0", ".", "0">> >> }

\* What subprocess.run(command, capture_output=True, text=True, check=True)
\* can do: complete with a return code and an output, or fail to start the
\* command (OSError).  check=True turns a non-zero return code into
\* CalledProcessError.
RunResults ==
    { [exc |-> "none", returncode |-> 0, stdout |-> out] : out \in Stdouts }
    \cup { [exc |-> "none", returncode |-> 1, stdout |-> << >>],
           [exc |-> "OSError", returncode |-> 0, stdout |-> << >>] }

\* pkg_resources.working_set: distributions with distinct keys.
WorkingSets ==
    UNION { [1..n -> LocalVersions] : n \in 0..MaxInstalled }

Distribution(i, v) == [key |-> PackageNames[i], version |-> v]

------------------------------------------------------------------------------
(* The program *)

VARIABLES
    args_package,        \* args.package, None without --package
    working_set,         \* pkg_resources.working_set
    enum_raises_at,      \* the distribution at which the enumeration raises, or 0
    pc,                  \* where main() is: start, loop, exited, raised
    packages_to_check,   \* the dict of main(), as its items in order
    idx,                 \* the number of items the for loop has processed
    vulnerable_packages,
    runs,                \* the subprocess.run calls made, with their results
    log,                 \* the logging calls made
    printed,             \* the lines printed
    exit_status          \* the argument of sys.exit, -1 before it

vars == <<args_package, working_set, enum_raises_at, pc, packages_to_check, idx,
          vulnerable_packages, runs, log, printed, exit_status>>

\* d[k] = v on a dict: replaces the value of k, or adds the item at the end.
DictSet(d, k, v) ==
    IF \E i \in 1..Len(d) : d[i].name = k
    THEN [i \in 1..Len(d) |->
            IF d[i].name = k THEN [name |-> k, installed_version |-> v] ELSE d[i]]
    ELSE Append(d, [name |-> k, installed_version |-> v])

RECURSIVE CollectInstalled(_, _, _)
CollectInstalled(ws, i, d) ==
    IF i > Len(ws) THEN d
    ELSE CollectInstalled(ws, i + 1, DictSet(d, ws[i].key, ws[i].version))

\* get_installed_packages() keeping what it collected when the enumeration
\* raises.
GetInstalledPackagesPartial(ws, raises_at) ==
    IF raises_at # 0 THEN CollectInstalled(SubSeq(ws, 1, raises_at - 1), 1, << >>)
    ELSE CollectInstalled(ws, 1, << >>)

\* get_installed_packages(): the installed packages, or {} when the
\* enumeration raises.
GetInstalledPackages(ws, raises_at) ==
    IF raises_at # 0 THEN << >> ELSE CollectInstalled(ws, 1, << >>)

\* The first line of the output that holds "Latest version" and a colon gives
\* the version: what follows its first colon, up to the next, stripped.
RECURSIVE LatestVersion(_)
LatestVersion(lines) ==
    IF lines = << >> THEN None
    ELSE LET line  == Head(lines)
             parts == Split(line, ":")
         IN  IF Contains(line, LatestVersionToken) /\ Len(parts) > 1
             THEN Strip(parts[2])
             ELSE LatestVersion(Tail(lines))

\* check_package_availability() that takes a failed command for a package
\* that is not on the registry.
CheckPackageAvailabilityLenient(run) ==
    IF run.exc # "none" THEN [raised |-> run.exc, value |-> None]
    ELSE IF run.returncode # 0 THEN [raised |-> "none", value |-> None]
    ELSE IF run.stdout = << >> THEN [raised |-> "none", value |-> None]
    ELSE [raised |-> "none", value |-> LatestVersion(run.stdout)]

\* check_package_availability(): the value returned, or the exception raised.
CheckPackageAvailability(run) ==
    IF run.exc # "none" THEN [raised |-> run.exc, value |-> None]
    ELSE IF run.returncode # 0
         THEN [raised |-> "CalledProcessError", value |-> None]
    ELSE IF run.stdout = << >> THEN [raised |-> "none", value |-> None]
    ELSE [raised |-> "none", value |-> LatestVersion(run.stdout)]

\* A logging call: the line that makes it and what its message is built from.
LogRec(line, name, installed, pypi, exc, parsed) ==
    [line |-> line, package |-> name, installed_version |-> installed,
     pypi_version |-> pypi, exc |-> exc, parsed |-> parsed]

\* The logging calls check_package_availability() makes on the way.
LookupLog(name, run) ==
    IF run.exc # "none" THEN <<LogRec(88, name, None, None, run.exc, 0)>>
    ELSE IF run.returncode # 0
         THEN <<LogRec(85, name, None, None, "CalledProcessError", 0)>>
    ELSE IF run.stdout = << >> THEN <<LogRec(82, name, None, None, "none", 0)>>
    ELSE << >>

\* The exceptions of the model; each is a subclass of Exception.
ExceptionClasses == {"CalledProcessError", "OSError", "InvalidVersion"}

\* A loop whose only except clause is the one for CalledProcessError.
ExceptClauseNarrow(exc) ==
    IF exc = "CalledProcessError" THEN 155 ELSE 0

\* A loop that raises CalledProcessError again after logging it, as
\* check_package_availability() does.
ExceptClauseReraise(exc) ==
    IF exc = "CalledProcessError" THEN 0
    ELSE IF exc \in ExceptionClasses THEN 157
    ELSE 0

\* The except clause of the loop body that catches exc, as the line of its
\* logging call; 0 when no clause catches it and it leaves main().
ExceptClause(exc) ==
    IF exc = "CalledProcessError" THEN 155
    ELSE IF exc \in ExceptionClasses THEN 157
    ELSE 0

\* The comparison with >= in the place of >.
IsNewerOrEqual(known, installed_obj, pypi_obj) ==
    known /\ (VersionGreater(installed_obj, pypi_obj)
                \/ CmpKey(installed_obj) = CmpKey(pypi_obj))

\* installed_version_obj is not None and installed_version_obj > pypi_version_obj
IsNewer(known, installed_obj, pypi_obj) ==
    known /\ VersionGreater(installed_obj, pypi_obj)

\* Lines 141-152, given the parsed versions (valid = FALSE: parse raised).
\* version.parse(installed_version) runs first, and only when the installed
\* version is truthy.
CompareParsed(known, installed_obj, pypi_obj) ==
    IF known /\ ~installed_obj.valid
    THEN [line |-> 0, exc |-> "InvalidVersion", parsed |-> 1]
    ELSE IF ~pypi_obj.valid
    THEN [line |-> 0, exc |-> "InvalidVersion", parsed |-> IF known THEN 2 ELSE 1]
    ELSE IF IsNewer(known, installed_obj, pypi_obj)
    THEN [line |-> 142, exc |-> "none", parsed |-> IF known THEN 2 ELSE 1]
    ELSE [line |-> 152, exc |-> "none", parsed |-> IF known THEN 2 ELSE 1]

\* The try body that parses before it looks at pypi_version.
CompareVersionsEager(installed_version, pypi_version) ==
    CompareParsed(Truthy(installed_version), Parse(installed_version),
                  Parse(pypi_version))

\* The try body of the loop after the lookup returned pypi_version: the line
\* of the logging call it ends with, or the exception it raises (line 0), and
\* the number of version.parse calls it made.
CompareVersions(installed_version, pypi_version) ==
    IF pypi_version = None THEN [line |-> 136, exc |-> "none", parsed |-> 0]
    ELSE CompareParsed(Truthy(installed_version), Parse(installed_version),
                       Parse(pypi_version))

\* What the except clauses make of the try body's result.
Caught(body) ==
    IF body.exc # "none"
    THEN [line |-> ExceptClause(body.exc), exc |-> body.exc, parsed |-> body.parsed]
    ELSE body

\* One iteration of the loop, given what check_package_availability did: the
\* line of the logging call of main() it ends with (0 when an exception
\* leaves the loop), the exception caught and the parse calls made.
ProcessPackage(installed_version, cpa) ==
    IF cpa.raised # "none"
    THEN Caught([line |-> 0, exc |-> cpa.raised, parsed |-> 0])
    ELSE Caught(CompareVersions(installed_version, cpa.value))

\* An exit status that counts every package that could not be checked.
ExitStatusAnyProblem(vulnerable, messages) ==
    IF vulnerable # << >> \/ \E i \in 1..Len(messages) : messages[i].line \in {155, 157}
    THEN 1 ELSE 0

\* The argument of sys.exit at the end of main().
ExitStatus(vulnerable, messages) ==
    IF vulnerable # << >> THEN 1 ELSE 0

\* The lines main() prints at the end.
ReportLines(vulnerable) ==
    IF vulnerable # << >>
    THEN <<"Potential Dependency Confusion Vulnerabilities Found:">>
         \o [i \in 1..Len(vulnerable) |-> vulnerable[i]]
    ELSE <<"No potential dependency confusion vulnerabilities found.">>

Init ==
    /\ args_package \in {None, PackageNames[1]}
    /\ \E versions \in WorkingSets :
         /\ working_set = [i \in 1..Len(versions) |-> Distribution(i, versions[i])]
         /\ enum_raises_at \in 0..Len(versions)
    /\ pc = "start"
    /\ packages_to_check = << >>
    /\ idx = 0
    /\ vulnerable_packages = << >>
    /\ runs = << >>
    /\ log = << >>
    /\ printed = << >>
    /\ exit_status = -1

\* main() up to the loop: the packages to check, and the exit when there are
\* none.
Start ==
    /\ pc = "start"
    /\ LET targets ==
             IF Truthy(args_package)
             THEN <<[name |-> args_package, installed_version |-> None]>>
             ELSE GetInstalledPackages(working_set, enum_raises_at)
           enum_log ==
             IF ~Truthy(args_package) /\ enum_raises_at # 0
             THEN <<LogRec(104, None, None, None, "Exception", 0)>> ELSE << >>
       IN  /\ packages_to_check' = targets
           /\ IF targets = << >>
              THEN /\ log' = log \o enum_log \o <<LogRec(125, None, None, None, "none", 0)>>
                   /\ pc' = "exited"
                   /\ exit_status' = 0
              ELSE /\ log' = log \o enum_log
                   /\ pc' = "loop"
                   /\ exit_status' = exit_status
    /\ UNCHANGED <<args_package, working_set, enum_raises_at, idx,
                   vulnerable_packages, runs, printed>>

\* The effects of one iteration whose result is res.
Iteration(item, run, cpa, res) ==
    /\ runs' = Append(runs, [package |-> item.name, result |-> run])
    /\ log' = log \o LookupLog(item.name, run)
                 \o (IF res.line = 0 THEN << >>
                     ELSE <<LogRec(res.line, item.name, item.installed_version,
                                   cpa.value, res.exc, res.parsed)>>)
    /\ vulnerable_packages' =
         IF res.line = 142
         THEN Append(vulnerable_packages,
                     [package |-> item.name,
                      installed_version |-> item.installed_version,
                      pypi_version |-> cpa.value])
         ELSE vulnerable_packages
    /\ pc' = IF res.line = 0 THEN "raised" ELSE "loop"
    /\ idx' = idx + 1

Lookup(item, run, cpa) ==
    Iteration(item, run, cpa, ProcessPackage(item.installed_version, cpa))

\* One iteration of the for loop: the lookup of the next package and what
\* main() makes of it.
CheckPackage ==
    /\ pc = "loop"
    /\ idx < Len(packages_to_check)
    /\ \E run \in RunResults :
         Lookup(packages_to_check[idx + 1], run, CheckPackageAvailability(run))
    /\ UNCHANGED <<args_package, working_set, enum_raises_at, packages_to_check,
                   printed, exit_status>>

\* The end of main(): the report and the exit status.
Report ==
    /\ pc = "loop"
    /\ idx = Len(packages_to_check)
    /\ printed' = printed \o ReportLines(vulnerable_packages)
    /\ exit_status' = ExitStatus(vulnerable_packages, log)
    /\ pc' = "exited"
    /\ UNCHANGED <<args_package, working_set, enum_raises_at, packages_to_check,
                   idx, vulnerable_packages, runs, log>>

Next == Start \/ CheckPackage \/ Report

Spec == Init /\ [][Next]_vars

\* main() is one sequential process: it takes its next step whenever it has one.
FairSpec == Spec /\ WF_vars(Next)

------------------------------------------------------------------------------
(* The outcome of a package, read from the logging call main() makes for   *)
(* it.                                                                     *)

OutcomeLines == {136, 142, 152, 155, 157}

OutcomeNames ==
    {"NotOnRegistry", "Confused", "UpToDate", "Unparseable", "LookupFailed"}

IsOutcomeRec(m) == m.line \in OutcomeLines

\* The per-package logging calls of main(), in order.
MainLog == SelectSeq(log, IsOutcomeRec)

\* Line 157 reports whatever the try body raised: a version that does not
\* parse, or a lookup that failed.
Outcome(m) ==
    CASE m.line = 136 -> "NotOnRegistry"
      [] m.line = 142 -> "Confused"
      [] m.line = 152 -> "UpToDate"
      [] m.line = 155 -> "LookupFailed"
      [] m.line = 157 /\ m.exc = "InvalidVersion" -> "Unparseable"
      [] m.line = 157 /\ m.exc # "InvalidVersion" -> "LookupFailed"
      [] OTHER -> "none"

HasOutcome(name) == \E k \in 1..Len(MainLog) : Outcome(MainLog[k]) = name

IsValid(s) == s # None /\ MatchVersion(s).valid

LookupRaised(run) == CheckPackageAvailability(run).raised # "none"

NotPresent(run) ==
    /\ CheckPackageAvailability(run).raised = "none"
    /\ CheckPackageAvailability(run).value = None

------------------------------------------------------------------------------
(* The claims *)

\* C1: main() exits with status 1 exactly when some processed package was
\* classified Confused, and with status 0 otherwise, however many packages
\* were not on the registry, did not parse or could not be looked up.
C1_ExitStatus ==
    pc = "exited" =>
        /\ exit_status \in {0, 1}
        /\ exit_status = 1 <=> HasOutcome("Confused")

C1_Witness ==
    /\ pc = "exited"
    /\ exit_status = 1
    /\ HasOutcome("Confused")
    /\ HasOutcome("LookupFailed")

C2_Continues ==
    \A k \in 1..Len(runs) :
        LookupRaised(runs[k].result) =>
            /\ pc # "raised"
            /\ pc = "exited" =>
                 /\ Len(runs) = Len(packages_to_check)
                 /\ Len(MainLog) = Len(packages_to_check)
                 /\ \A j \in (k + 1)..Len(packages_to_check) :
                      /\ runs[j].package = packages_to_check[j].name
                      /\ MainLog[j].package = packages_to_check[j].name
                      /\ Outcome(MainLog[j]) \in OutcomeNames

C2_KeepsRecorded ==
    (/\ Len(runs') = Len(runs) + 1
     /\ LookupRaised(runs'[Len(runs')].result))
        => vulnerable_packages' = vulnerable_packages

\* C2: a lookup that raises for the package at position k never aborts the
\* scan: the exception does not leave the loop, every later package is looked
\* up and classified by the time main() exits, and the step that handles the
\* failure leaves the recorded vulnerable packages as they were.
C2_LookupFailureDoesNotAbort ==
    []C2_Continues /\ [][C2_KeepsRecorded]_vars

C2_Witness ==
    /\ pc = "exited"
    /\ Len(runs) = 2
    /\ LookupRaised(runs[1].result)
    /\ Len(MainLog) = 2
    /\ Outcome(MainLog[2]) = "Confused"

\* C3: for a package the registry has, an installed version string or a
\* registry version string that does not parse gives Unparseable, never
\* UpToDate.
C3_NeverSilentlySafe ==
    \A k \in 1..Len(MainLog) :
        LET m == MainLog[k] IN
        (/\ m.pypi_version # None
         /\ \/ (m.installed_version # None /\ ~IsValid(m.installed_version))
            \/ ~IsValid(m.pypi_version))
            => Outcome(m) = "Unparseable"

C3_Witness ==
    /\ \E k \in 1..Len(MainLog) :
         /\ MainLog[k].installed_version # None
         /\ ~IsValid(MainLog[k].installed_version)
         /\ IsValid(MainLog[k].pypi_version)
         /\ Outcome(MainLog[k]) = "Unparseable"
    /\ \E k \in 1..Len(MainLog) :
         /\ IsValid(MainLog[k].installed_version)
         /\ MainLog[k].pypi_version # None
         /\ ~IsValid(MainLog[k].pypi_version)
         /\ Outcome(MainLog[k]) = "Unparseable"

\* C4: a package the registry has and whose installed version is unknown
\* (None, as with --package) is Unparseable and never UpToDate.
C4_UnknownLocalIsUnparseable ==
    \A k \in 1..Len(MainLog) :
        (MainLog[k].installed_version = None /\ MainLog[k].pypi_version # None)
            => Outcome(MainLog[k]) = "Unparseable"

\* C5: when the lookup returns None the outcome is NotOnRegistry whatever
\* the installed version is, no version is parsed, and the package is not
\* added to the vulnerable list.
C5_NotOnRegistryFirst ==
    \A k \in 1..Len(runs) :
        NotPresent(runs[k].result) =>
            /\ k <= Len(MainLog)
            /\ MainLog[k].package = runs[k].package
            /\ Outcome(MainLog[k]) = "NotOnRegistry"
            /\ MainLog[k].parsed = 0
            /\ \A i \in 1..Len(vulnerable_packages) :
                 vulnerable_packages[i].package # runs[k].package

C5_Witness ==
    \E k \in 1..Len(runs) :
        /\ NotPresent(runs[k].result)
        /\ k <= Len(MainLog)
        /\ MainLog[k].installed_version # None
        /\ ~IsValid(MainLog[k].installed_version)
        /\ Outcome(MainLog[k]) = "NotOnRegistry"

IsConfusedRec(m) == Outcome(m) = "Confused"

ConfusedLog == SelectSeq(MainLog, IsConfusedRec)

LocalIsGreater(m) ==
    /\ m.pypi_version # None
    /\ IsValid(m.installed_version)
    /\ IsValid(m.pypi_version)
    /\ VersionGreater(MatchVersion(m.installed_version), MatchVersion(m.pypi_version))

LocalIsNotGreater(m) ==
    /\ m.pypi_version # None
    /\ IsValid(m.installed_version)
    /\ IsValid(m.pypi_version)
    /\ ~VersionGreater(MatchVersion(m.installed_version), MatchVersion(m.pypi_version))

\* C6: a package is Confused, and appended to vulnerable_packages with its
\* name and both versions, exactly when the registry has it, both versions
\* parse and the installed one is strictly greater; when it is less than or
\* equal the outcome is UpToDate and nothing is appended.
C6_ConfusedIffGreater ==
    /\ \A k \in 1..Len(MainLog) :
         /\ Outcome(MainLog[k]) = "Confused" <=> LocalIsGreater(MainLog[k])
         /\ LocalIsNotGreater(MainLog[k]) => Outcome(MainLog[k]) = "UpToDate"
    /\ vulnerable_packages =
         [i \in 1..Len(ConfusedLog) |->
            [package |-> ConfusedLog[i].package,
             installed_version |-> ConfusedLog[i].installed_version,
             pypi_version |-> ConfusedLog[i].pypi_version]]

C6_Witness ==
    /\ \E k \in 1..Len(MainLog) :
         /\ Outcome(MainLog[k]) = "Confused"
         /\ StripZeros(MatchVersion(MainLog[k].installed_version).release)
              = StripZeros(MatchVersion(MainLog[k].pypi_version).release)
    /\ \E k \in 1..Len(MainLog) :
         /\ Outcome(MainLog[k]) = "UpToDate"
         /\ LocalIsNotGreater(MainLog[k])
         /\ MainLog[k].installed_version # MainLog[k].pypi_version
         /\ CmpKey(MatchVersion(MainLog[k].installed_version))
              = CmpKey(MatchVersion(MainLog[k].pypi_version))

\* C7: when there is nothing to check (no --package, and the enumeration of
\* the installed packages is empty or raises), main() exits at once with
\* status 0: no lookup is made and no package is reported.
C7_EmptyTargetSet ==
    (/\ pc # "start"
     /\ ~Truthy(args_package)
     /\ (working_set = << >> \/ enum_raises_at # 0))
        => /\ pc = "exited"
           /\ exit_status = 0
           /\ runs = << >>
           /\ MainLog = << >>
           /\ vulnerable_packages = << >>

C7_Witness ==
    /\ pc = "exited"
    /\ ~Truthy(args_package)
    /\ Len(working_set) = 2
    /\ enum_raises_at = 2
    /\ runs = << >>

\* C8: main() always reaches its exit with status 0 or 1, and no exception
\* raised while a package is processed leaves the loop.
C8_ScanIsTotal ==
    <>(pc = "exited" /\ exit_status \in {0, 1}) /\ [](pc # "raised")

C8_Witness ==
    /\ pc = "exited"
    /\ exit_status \in {0, 1}
    /\ \E k \in 1..Len(MainLog) : MainLog[k].exc = "OSError"
    /\ \E k \in 1..Len(MainLog) : MainLog[k].exc = "InvalidVersion"

\* C9: every processed package has exactly one outcome, one of the five; a
\* command that exits non-zero gives LookupFailed and never NotOnRegistry, a
\* lookup that returns None gives NotOnRegistry and never LookupFailed.
C9_ExactlyOneOutcome ==
    /\ Len(MainLog) = idx
    /\ Len(runs) = idx
    /\ \A k \in 1..idx :
         /\ MainLog[k].package = packages_to_check[k].name
         /\ runs[k].package = packages_to_check[k].name
         /\ Outcome(MainLog[k]) \in OutcomeNames
         /\ (runs[k].result.exc = "none" /\ runs[k].result.returncode # 0)
              => Outcome(MainLog[k]) = "LookupFailed"
         /\ NotPresent(runs[k].result) => Outcome(MainLog[k]) = "NotOnRegistry"

C9_Witness ==
    /\ idx = 2
    /\ runs[1].result.returncode # 0
    /\ Outcome(MainLog[1]) = "LookupFailed"
    /\ NotPresent(runs[2].result)
    /\ Outcome(MainLog[2]) = "NotOnRegistry"

\* A line that carries a version: it holds "Latest version" and something
\* other than blanks after its first colon.
IsUsableLine(line) ==
    /\ Contains(line, LatestVersionToken)
    /\ Len(Split(line, ":")) > 1
    /\ Strip(Split(line, ":")[2]) # << >>

HasUsableLine(lines) == \E i \in 1..Len(lines) : IsUsableLine(lines[i])

\* C10: when the command succeeds and its output has no usable
\* "Latest version: <v>" line, the lookup is an error and the package is
\* LookupFailed, not NotOnRegistry; a version is returned only from a line
\* that carries one.
C10_MalformedIsLookupError ==
    \A k \in 1..Len(runs) :
        (/\ k <= Len(MainLog)
         /\ runs[k].result.exc = "none"
         /\ runs[k].result.returncode = 0
         /\ runs[k].result.stdout # << >>
         /\ ~HasUsableLine(runs[k].result.stdout))
            => /\ Outcome(MainLog[k]) = "LookupFailed"
               /\ MainLog[k].pypi_version = None

====
